---- MODULE Spec2Model ----
(***************************************************************************)
(* DiskDrive (src/src/lib.rs): copy of a file or a directory subtree from  *)
(* one FloppyDisk backend to another.                                      *)
(*                                                                         *)
(* The two backends are type parameters of the code.  They are modelled    *)
(* as path-addressed stores with the semantics of std::fs / tokio::fs,     *)
(* which the FloppyDisk facade mirrors: metadata, open, chown and          *)
(* set_permissions follow symbolic links, read_link and symlink do not,    *)
(* create_new refuses any existing name, create_dir_all accepts an         *)
(* existing directory.  Two points on which backends may differ are kept   *)
(* open in the variable backend: whether metadata on the destination       *)
(* reports a symbolic link instead of following it, and whether a          *)
(* directory may be opened for writing.                                    *)
(***************************************************************************)
EXTENDS Integers, Sequences, FiniteSets, TLC

VARIABLES src, dest, dest0, backend, srcScope, destScope, paths, cur, status, runs, faulted

vars == <<src, dest, dest0, backend, srcScope, destScope, paths, cur, status, runs, faulted>>

(***************************************************************************)
(* Bounds of the model.                                                    *)
(***************************************************************************)
\* longest file content, in bytes
MaxLen == 1
\* copy operations issued one after the other
MaxRuns == 2
\* symbolic links followed in one path resolution before it fails (ELOOP)
MaxHops == 3

(***************************************************************************)
(* Paths.  A PathBuf is the sequence of its components; an absolute path   *)
(* starts with the root component "/".                                     *)
(***************************************************************************)
Names == {"a", "b"}

NameRank(n) == IF n = "/" THEN 0 ELSE IF n = "a" THEN 1 ELSE 2

Root == <<"/">>

IsAbsolute(p) == Len(p) > 0 /\ p[1] = "/"

\* Path::join: an absolute argument replaces the base
Join(base, p) == IF IsAbsolute(p) THEN p ELSE base \o p

\* Path::parent: None for the root and for the empty path
HasParent(p) == Len(p) > 0 /\ p # Root

Parent(p) == SubSeq(p, 1, Len(p) - 1)

\* Path::file_name
FileName(p) == p[Len(p)]

\* Path::starts_with
StartsWith(p, base) == Len(base) <= Len(p) /\ SubSeq(p, 1, Len(base)) = base

\* the order of PathBuf (component by component), the order of the BTreeSet
RECURSIVE PathLess(_, _)
PathLess(p, q) ==
    IF p = <<>> THEN q # <<>>
    ELSE IF q = <<>> THEN FALSE
    ELSE IF Head(p) = Head(q) THEN PathLess(Tail(p), Tail(q))
    ELSE NameRank(Head(p)) < NameRank(Head(q))

\* the absolute paths of the model: the root, /a and what /a holds
AbsPaths == {Root, <<"/", "a">>} \cup {<<"/", "a", x>> : x \in Names}

(***************************************************************************)
(* Entries of a backend.                                                   *)
(***************************************************************************)
\* file contents: the bytes of source files are 1, the bytes a destination
\* file holds before the first copy are 2
SrcContents == {[i \in 1..n |-> 1] : n \in 0..MaxLen}

DestContents == {[i \in 1..n |-> 2] : n \in 0..MaxLen}

\* link target strings: one relative, one absolute
Targets == {<<"b">>, <<"/", "a">>}

Entry(k, c, t, m, u, g) ==
    [kind |-> k, content |-> c, target |-> t, mode |-> m, uid |-> u, gid |-> g]

None == Entry("none", <<>>, <<>>, 0, 0, 0)

\* mode, uid, gid of source entries: 0644/1000/1000 and 0700/0/50
SrcMetas == {[mode |-> 420, uid |-> 1000, gid |-> 1000], [mode |-> 448, uid |-> 0, gid |-> 50]}

\* mode, uid, gid of entries the destination holds before the first copy
DestMetas == {[mode |-> 448, uid |-> 0, gid |-> 50]}

\* what the backend gives a new file, directory, link: umask 022, process 0:0
NewFile == Entry("file", <<>>, <<>>, 420, 0, 0)

NewDir == Entry("dir", <<>>, <<>>, 493, 0, 0)

NewLink(t) == Entry("symlink", <<>>, t, 511, 0, 0)

RootDir == Entry("dir", <<>>, <<>>, 493, 0, 0)

Meta(e) == [mode |-> e.mode, uid |-> e.uid, gid |-> e.gid]

Lookup(fs, p) == IF p \in DOMAIN fs THEN fs[p] ELSE None

EmptyFs == [p \in AbsPaths |-> IF p = Root THEN RootDir ELSE None]

Put(fs, p, e) == [fs EXCEPT ![p] = e]

(***************************************************************************)
(* The backend operations the code calls (FloppyDisk and FloppyDiskUnixExt *)
(* methods), with the semantics of std::fs.  Each returns a record whose   *)
(* field ok tells Ok from Err.                                             *)
(***************************************************************************)
\* Path resolution: the place a path names after following the links in it;
\* the last component is followed only with followLast.
RECURSIVE ResolveFrom(_, _, _, _, _)
ResolveFrom(fs, at, rest, followLast, fuel) ==
    IF rest = <<>> THEN [ok |-> TRUE, path |-> at]
    ELSE IF Lookup(fs, at).kind # "dir" THEN [ok |-> FALSE, path |-> at]
    ELSE LET nxt == Append(at, Head(rest))
             e == Lookup(fs, nxt)
         IN  IF e.kind = "symlink" /\ (Len(rest) > 1 \/ followLast)
             THEN IF fuel = 0 THEN [ok |-> FALSE, path |-> nxt]
                  ELSE IF IsAbsolute(e.target)
                       THEN ResolveFrom(fs, Root, Tail(e.target) \o Tail(rest), followLast, fuel - 1)
                       ELSE ResolveFrom(fs, at, e.target \o Tail(rest), followLast, fuel - 1)
             ELSE ResolveFrom(fs, nxt, Tail(rest), followLast, fuel)

Resolve(fs, p, followLast) ==
    IF IsAbsolute(p) THEN ResolveFrom(fs, Root, Tail(p), followLast, MaxHops)
    ELSE [ok |-> FALSE, path |-> p]

\* the existing entry a path names, or None
EntryAt(fs, p, followLast) ==
    LET r == Resolve(fs, p, followLast)
    IN  IF r.ok THEN Lookup(fs, r.path) ELSE None

\* FloppyDisk::metadata (stat): follows links
Metadata(fs, p) ==
    LET e == EntryAt(fs, p, TRUE) IN [ok |-> e.kind # "none", entry |-> e]

\* metadata of a backend that reports a link instead of following it (lstat)
SymlinkMetadata(fs, p) ==
    LET e == EntryAt(fs, p, FALSE) IN [ok |-> e.kind # "none", entry |-> e]

\* FloppyDisk::read_link: Ok only for a symbolic link, which it does not follow
ReadLink(fs, p) ==
    LET e == EntryAt(fs, p, FALSE) IN [ok |-> e.kind = "symlink", target |-> e.target]

\* mkdir: the parent must be a directory and the name must be free
Mkdir(fs, p) ==
    LET r == Resolve(fs, p, FALSE)
    IN  IF r.ok /\ r.path \in DOMAIN fs /\ Lookup(fs, r.path).kind = "none"
        THEN [ok |-> TRUE, fs |-> Put(fs, r.path, NewDir)]
        ELSE [ok |-> FALSE, fs |-> fs]

IsDir(fs, p) == EntryAt(fs, p, TRUE).kind = "dir"

\* FloppyDisk::create_dir_all: creates the missing ancestors, then the
\* directory; an existing directory (also behind a link) is accepted
RECURSIVE CreateDirAll(_, _)
CreateDirAll(fs, p) ==
    LET first == Mkdir(fs, p)
    IN  IF first.ok \/ IsDir(fs, p) THEN [ok |-> TRUE, fs |-> first.fs]
        ELSE IF ~HasParent(p) \/ EntryAt(fs, p, FALSE).kind # "none"
             THEN [ok |-> FALSE, fs |-> fs]
             ELSE LET up == CreateDirAll(fs, Parent(p))
                  IN  IF ~up.ok THEN up
                      ELSE LET again == Mkdir(up.fs, p)
                           IN  IF again.ok \/ IsDir(up.fs, p)
                               THEN [ok |-> TRUE, fs |-> again.fs]
                               ELSE [ok |-> FALSE, fs |-> up.fs]

\* OpenOptions create(true).create_new(true).read(true).write(true):
\* O_CREAT|O_EXCL, fails on any existing name, a link included.
\* The handle is the place of the opened file.
OpenNew(fs, p) ==
    LET r == Resolve(fs, p, FALSE)
    IN  IF r.ok /\ r.path \in DOMAIN fs /\ Lookup(fs, r.path).kind = "none"
        THEN [ok |-> TRUE, fs |-> Put(fs, r.path, NewFile), handle |-> r.path]
        ELSE [ok |-> FALSE, fs |-> fs, handle |-> p]

\* OpenOptions read(true).write(true): follows links, needs an existing
\* entry; a directory is refused (EISDIR) unless the backend opens it
OpenRW(fs, p, openDir) ==
    LET r == Resolve(fs, p, TRUE)
        e == Lookup(fs, r.path)
    IN  [ok |-> r.ok /\ e.kind # "none" /\ (e.kind = "dir" => openDir), handle |-> r.path]

\* OpenOptions read(true) on the source
OpenRead(fs, p) ==
    LET r == Resolve(fs, p, TRUE)
    IN  [ok |-> r.ok /\ Lookup(fs, r.path).kind # "none", handle |-> r.path]

\* what a file holds after bytes are written from its start without truncation
WriteAtStart(old, bytes) ==
    IF Len(bytes) >= Len(old) THEN bytes
    ELSE bytes \o SubSeq(old, Len(bytes) + 1, Len(old))

\* tokio::io::copy into an open handle, n bytes of it done; a handle that is
\* not a regular file stores nothing under any path
IoCopy(fs, handle, bytes, n) ==
    IF Lookup(fs, handle).kind = "file"
    THEN Put(fs, handle, [fs[handle] EXCEPT !.content = WriteAtStart(@, SubSeq(bytes, 1, n))])
    ELSE fs

\* FloppyDiskUnixExt::chown: follows links, the entry must exist
Chown(fs, p, uid, gid) ==
    LET r == Resolve(fs, p, TRUE)
    IN  IF r.ok /\ Lookup(fs, r.path).kind # "none"
        THEN [ok |-> TRUE, fs |-> Put(fs, r.path, [fs[r.path] EXCEPT !.uid = uid, !.gid = gid])]
        ELSE [ok |-> FALSE, fs |-> fs]

\* FloppyDisk::set_permissions: follows links, the entry must exist
SetPermissions(fs, p, mode) ==
    LET r == Resolve(fs, p, TRUE)
    IN  IF r.ok /\ Lookup(fs, r.path).kind # "none"
        THEN [ok |-> TRUE, fs |-> Put(fs, r.path, [fs[r.path] EXCEPT !.mode = mode])]
        ELSE [ok |-> FALSE, fs |-> fs]

\* FloppyDisk::symlink(target, link): the parent must exist, the name be free
Symlink(fs, target, p) ==
    LET r == Resolve(fs, p, FALSE)
    IN  IF r.ok /\ r.path \in DOMAIN fs /\ Lookup(fs, r.path).kind = "none"
        THEN [ok |-> TRUE, fs |-> Put(fs, r.path, NewLink(target))]
        ELSE [ok |-> FALSE, fs |-> fs]

(***************************************************************************)
(* nyoom::walk_ordered, as the code uses it (line 123): the paths of all   *)
(* entries below a directory, links reported and not entered, in the       *)
(* order of the BTreeSet.                                                  *)
(***************************************************************************)
WalkSet(fs, root) ==
    LET c == Resolve(fs, root, TRUE).path
    IN  {root \o SubSeq(q, Len(c) + 1, Len(q)) :
            q \in {x \in AbsPaths : StartsWith(x, c) /\ x # c /\ fs[x].kind # "none"}}

MinPath(S) == CHOOSE p \in S : \A q \in S : q = p \/ PathLess(p, q)

RECURSIVE Ordered(_)
Ordered(S) ==
    IF S = {} THEN <<>>
    ELSE LET m == MinPath(S) IN <<m>> \o Ordered(S \ {m})

\* Result of the walk: Err when the root is no directory
WalkOrdered(fs, root) ==
    IF IsDir(fs, root) THEN [ok |-> TRUE, paths |-> Ordered(WalkSet(fs, root))]
    ELSE [ok |-> FALSE, paths |-> <<>>]

(***************************************************************************)
(* The replicators.  Each returns [ok, fs]: the Result and the destination *)
(* as the call leaves it.  The parameter f names the backend call that     *)
(* fails with an I/O error (0: none), in the order of the calls; n is the  *)
(* number of bytes tokio::io::copy has written when it is the one failing. *)
(***************************************************************************)
Res(ok, fs) == [ok |-> ok, fs |-> fs]

\* Path Scope Resolver: lines 64-69, 78-83, 93-104
ResolveScope(scope) == IF ~StartsWith(scope, Root) THEN Join(Root, scope) ELSE scope

\* dest_path.join(src_path): lines 165, 293, 314
DestPathFor(scope, srcPath) == Join(scope, srcPath)

\* a variant that leaves the owner as the backend set it
CopyModeOnly(fs, p, m, f) ==
    IF f = 7 \/ f = 8 THEN Res(FALSE, fs) ELSE SetPermissions(fs, p, m.mode)

\* chown, then set_permissions, of the source's metadata onto a path:
\* lines 206-207, 239-240, 261-262, 281-282
CopyOwnerAndMode(fs, p, m, f) ==
    IF f = 7 THEN Res(FALSE, fs)
    ELSE LET own == Chown(fs, p, m.uid, m.gid)
         IN  IF ~own.ok THEN Res(FALSE, fs)
             ELSE IF f = 8 THEN Res(FALSE, own.fs)
             ELSE SetPermissions(own.fs, p, m.mode)

\* lines 186-209: the destination does not exist
CopyToNewFile(fs, dp, e, f, n) ==
    LET new == OpenNew(fs, dp)
    IN  IF f = 4 \/ ~new.ok THEN Res(FALSE, fs)
        ELSE LET written == IoCopy(new.fs, new.handle, e.content, n)
             IN  IF f = 5 \/ f = 6 THEN Res(FALSE, written)
                 ELSE CopyOwnerAndMode(written, dp, Meta(e), f)

\* lines 212-282: the destination exists
CopyToExisting(fs, dp, srcPath, e, found, openDir, f, n) ==
    LET h == OpenRW(fs, dp, openDir)
    IN  IF f = 4 \/ ~h.ok THEN Res(FALSE, fs)
        ELSE IF found.kind = "dir"
        THEN LET joined == Join(dp, <<FileName(srcPath)>>)
                 written == IoCopy(fs, h.handle, e.content, n)
             IN  IF f = 5 \/ f = 6 THEN Res(FALSE, written)
                 ELSE CopyOwnerAndMode(written, joined, Meta(e), f)
        ELSE IF found.kind = "file"
        THEN LET written == IoCopy(fs, h.handle, e.content, n)
             IN  IF f = 5 \/ f = 6 THEN Res(FALSE, written)
                 ELSE CopyOwnerAndMode(written, dp, Meta(e), f)
        ELSE IF found.kind = "symlink" THEN Res(TRUE, fs)
        ELSE IF f = 6 THEN Res(FALSE, fs)
        ELSE CopyOwnerAndMode(fs, dp, Meta(e), f)

\* copy_file_to_memfs, lines 159-285
CopyFileToMemfs(s, fs, srcPath, scope, lstat, openDir, f, n) ==
    LET dp == DestPathFor(scope, srcPath)
        up1 == IF HasParent(dp) THEN CreateDirAll(fs, Parent(dp)) ELSE Res(TRUE, fs)
        sh == OpenRead(s, srcPath)
        e == Lookup(s, sh.handle)
    IN  IF f = 1 THEN Res(FALSE, fs)
        ELSE IF ~up1.ok \/ f = 2 \/ ~sh.ok \/ f = 3 THEN Res(FALSE, up1.fs)
        ELSE LET up2 == IF HasParent(dp) THEN CreateDirAll(up1.fs, Parent(dp)) ELSE up1
                 md == IF lstat THEN SymlinkMetadata(up2.fs, dp) ELSE Metadata(up2.fs, dp)
             IN  IF ~up2.ok THEN up2
                 ELSE IF ~md.ok THEN CopyToNewFile(up2.fs, dp, e, f, n)
                 ELSE CopyToExisting(up2.fs, dp, srcPath, e, md.entry, openDir, f, n)

\* a variant that makes room for the directory where another entry is
CopyDirReplacing(s, fs, srcPath, scope, f) ==
    LET dp == DestPathFor(scope, srcPath)
        at == Resolve(fs, dp, FALSE)
        cleared == IF at.ok /\ Lookup(fs, at.path).kind \notin {"none", "dir"}
                   THEN Put(fs, at.path, None) ELSE fs
        made == CreateDirAll(cleared, dp)
        md == Metadata(s, srcPath)
    IN  IF f # 0 \/ ~made.ok \/ ~md.ok THEN Res(FALSE, fs)
        ELSE LET perm == SetPermissions(made.fs, dp, md.entry.mode)
             IN  IF ~perm.ok THEN Res(FALSE, perm.fs)
                 ELSE Chown(perm.fs, dp, md.entry.uid, md.entry.gid)

\* copy_dir_to_memfs, lines 287-306
CopyDirToMemfs(s, fs, srcPath, scope, f) ==
    LET dp == DestPathFor(scope, srcPath)
        made == CreateDirAll(fs, dp)
        md == Metadata(s, srcPath)
    IN  IF f = 1 THEN Res(FALSE, fs)
        ELSE IF ~made.ok \/ f = 2 \/ ~md.ok \/ f = 3 THEN Res(FALSE, made.fs)
        ELSE LET perm == SetPermissions(made.fs, dp, md.entry.mode)
             IN  IF ~perm.ok \/ f = 4 THEN Res(FALSE, perm.fs)
                 ELSE Chown(perm.fs, dp, md.entry.uid, md.entry.gid)

\* a variant that links to the source path instead of the link's target
AddSymlinkToSourcePath(s, fs, srcPath, scope, f) ==
    IF f # 0 \/ ~ReadLink(s, srcPath).ok THEN Res(FALSE, fs)
    ELSE Symlink(fs, srcPath, DestPathFor(scope, srcPath))

\* add_symlink_to_memfs, lines 308-321
AddSymlinkToMemfs(s, fs, srcPath, scope, f) ==
    LET dp == DestPathFor(scope, srcPath)
        link == ReadLink(s, srcPath)
    IN  IF f = 1 \/ ~link.ok \/ f = 2 THEN Res(FALSE, fs)
        ELSE Symlink(fs, link.target, dp)

(***************************************************************************)
(* The stores an operation may start from: nothing, an entry at /a, or the *)
(* directory /a with any entries at /a/a and /a/b.  The entries of one     *)
(* store share their mode, uid and gid.                                    *)
(***************************************************************************)
WellFormed(fs) ==
    /\ fs[Root].kind = "dir"
    /\ \A p \in AbsPaths \ {Root} : fs[p].kind # "none" => fs[Parent(p)].kind = "dir"

Leaves(contents, m) ==
    {Entry("file", c, <<>>, m.mode, m.uid, m.gid) : c \in contents}
    \cup {NewLink(t) : t \in Targets}
    \cup {Entry("other", <<>>, <<>>, m.mode, m.uid, m.gid)}

Dir(m) == Entry("dir", <<>>, <<>>, m.mode, m.uid, m.gid)

Trees(contents, metas) ==
    {EmptyFs}
    \cup {Put(EmptyFs, <<"/", "a">>, e) : e \in UNION {Leaves(contents, m) : m \in metas}}
    \cup UNION {{[EmptyFs EXCEPT ![<<"/", "a">>] = Dir(m),
                                 ![<<"/", "a", "a">>] = x,
                                 ![<<"/", "a", "b">>] = y] :
                    x, y \in Leaves(contents, m) \cup {Dir(m), None}} : m \in metas}

SrcTrees == Trees(SrcContents, SrcMetas)

DestTrees == Trees(DestContents, DestMetas)

\* the paths of the regular files of a store
FilePaths(fs) == {p \in AbsPaths : fs[p].kind = "file"}

\* the backends that behave differently on a pair of stores: they differ
\* where the destination of a source file is a link or a directory
Backends(s, d) ==
    [lstat : IF \E p \in FilePaths(s) : EntryAt(d, p, FALSE).kind = "symlink"
             THEN BOOLEAN ELSE {FALSE},
     openDir : IF \E p \in FilePaths(s) : EntryAt(d, p, TRUE).kind = "dir"
               THEN BOOLEAN ELSE {FALSE}]

\* scope arguments of the callers, relative and absolute
SrcScopeArgs == {<<"a">>, <<"/", "a">>}

DestScopeArgs == {<<"b">>, <<"/", "b">>}

NoStep == [path |-> <<>>, op |-> "none", found |-> "none", ok |-> TRUE]

(***************************************************************************)
(* The state machine.                                                      *)
(*   src, dest     the two stores                                          *)
(*   dest0         dest when the running (or last) operation started       *)
(*   srcScope, destScope   the resolved scopes of do_copy                  *)
(*   paths         the paths the loop of do_copy has still to process      *)
(*   cur           the last step of the loop: its path, the replicator it  *)
(*                 dispatched to, the kind found at the destination path   *)
(*                 (links not followed) before the step, and its Result    *)
(*   status        idle, running, ok (returned Ok), err (returned Err)     *)
(*   runs          operations started so far                               *)
(*   faulted       a backend call of this operation failed with an I/O     *)
(*                 error that the state of the stores does not explain     *)
(***************************************************************************)
Init ==
    /\ src \in SrcTrees
    /\ dest \in DestTrees
    /\ dest0 = dest
    /\ backend \in Backends(src, dest)
    /\ srcScope = Root
    /\ destScope = Root
    /\ paths = <<>>
    /\ cur = NoStep
    /\ status = "idle"
    /\ runs = 0
    /\ faulted = FALSE

\* do_copy up to its loop, lines 108-124.  f = 1: the metadata call fails,
\* f = 2: the walk fails.
DoCopy(srcPath, destPath, f) ==
    LET md == Metadata(src, srcPath)
        walk == WalkOrdered(src, srcPath)
        isFile == md.ok /\ md.entry.kind = "file"
        ok == f = 0 /\ md.ok /\ (isFile \/ walk.ok)
    IN  /\ status \in {"idle", "ok"}
        /\ runs < MaxRuns
        /\ runs > 0 => srcPath = srcScope /\ destPath = destScope
        /\ f = 2 => md.ok /\ ~isFile
        /\ srcScope' = srcPath
        /\ destScope' = destPath
        /\ dest0' = dest
        /\ runs' = runs + 1
        /\ cur' = NoStep
        /\ faulted' = (f # 0)
        /\ status' = IF ok THEN "running" ELSE "err"
        /\ paths' = IF ~ok THEN <<>> ELSE IF isFile THEN <<srcPath>> ELSE walk.paths
        /\ UNCHANGED <<src, dest, backend>>

\* lines 55-57
CopyBetween == \E f \in 0..2 : DoCopy(Root, Root, f)

\* lines 59-71
CopyFromSrc == \E s \in SrcScopeArgs, f \in 0..2 : DoCopy(ResolveScope(s), Root, f)

\* lines 73-85
CopyToDest == \E d \in DestScopeArgs, f \in 0..2 : DoCopy(Root, ResolveScope(d), f)

\* lines 87-106
CopyFromSrcToDest ==
    \E s \in SrcScopeArgs, d \in DestScopeArgs, f \in 0..2 :
        DoCopy(ResolveScope(s), ResolveScope(d), f)

\* a variant that treats an entry of another type as an error
UnknownTypeFatal(fs) == Res(FALSE, fs)

\* lines 149-151: an entry of another type is logged, and the loop goes on
UnknownType(fs) == Res(TRUE, fs)

\* the Entry Classifier of the loop, lines 127-152
Classify(p) ==
    IF ReadLink(src, p).ok THEN "symlink"
    ELSE LET k == Metadata(src, p).entry.kind
         IN  IF k = "dir" THEN "dir" ELSE IF k = "file" THEN "file" ELSE "unknown"

\* a variant of the loop that goes on after a replicator's Err
SteppedGoingOn(op, r, f) ==
    /\ dest' = r.fs
    /\ cur' = [path |-> Head(paths), op |-> op,
               found |-> EntryAt(dest, DestPathFor(destScope, Head(paths)), FALSE).kind,
               ok |-> r.ok]
    /\ status' = "running"
    /\ paths' = Tail(paths)
    /\ faulted' = (faulted \/ f # 0)
    /\ UNCHANGED <<src, dest0, backend, srcScope, destScope, runs>>

\* one iteration of the loop has run replicator op on the head of paths
\* with Result r
Stepped(op, r, f) ==
    /\ dest' = r.fs
    /\ cur' = [path |-> Head(paths), op |-> op,
               found |-> EntryAt(dest, DestPathFor(destScope, Head(paths)), FALSE).kind,
               ok |-> r.ok]
    /\ status' = IF r.ok THEN "running" ELSE "err"
    /\ paths' = Tail(paths)
    /\ faulted' = (faulted \/ f # 0)
    /\ UNCHANGED <<src, dest0, backend, srcScope, destScope, runs>>

Looping == status = "running" /\ paths # <<>>

\* lines 128-135
StepSymlink ==
    /\ Looping
    /\ Classify(Head(paths)) = "symlink"
    /\ \E f \in 0..2 :
        Stepped("symlink", AddSymlinkToMemfs(src, dest, Head(paths), destScope, f), f)

\* lines 137-141; f = 9: the metadata call of line 137 fails
StepDir ==
    /\ Looping
    /\ Classify(Head(paths)) = "dir"
    /\ \E f \in {0, 1, 2, 3, 4, 9} :
        Stepped("dir", IF f = 9 THEN Res(FALSE, dest)
                       ELSE CopyDirToMemfs(src, dest, Head(paths), destScope, f), f)

\* lines 137, 142-148
StepFile ==
    /\ Looping
    /\ Classify(Head(paths)) = "file"
    /\ \E f \in 0..9 :
       \E n \in 0..Len(Metadata(src, Head(paths)).entry.content) :
        /\ f # 5 => n = Len(Metadata(src, Head(paths)).entry.content)
        /\ Stepped("file", IF f = 9 THEN Res(FALSE, dest)
                           ELSE CopyFileToMemfs(src, dest, Head(paths), destScope,
                                                backend.lstat, backend.openDir, f, n), f)

\* lines 137, 149-151: any other type is logged and skipped
StepUnknown ==
    /\ Looping
    /\ Classify(Head(paths)) = "unknown"
    /\ \E f \in {0, 9} :
        Stepped("unknown", IF f = 9 THEN Res(FALSE, dest) ELSE UnknownType(dest), f)

\* line 156
Finish ==
    /\ status = "running"
    /\ paths = <<>>
    /\ status' = "ok"
    /\ UNCHANGED <<src, dest, dest0, backend, srcScope, destScope, paths, cur, runs, faulted>>

Next ==
    \/ CopyBetween
    \/ CopyFromSrc
    \/ CopyToDest
    \/ CopyFromSrcToDest
    \/ StepSymlink
    \/ StepDir
    \/ StepFile
    \/ StepUnknown
    \/ Finish

Spec == Init /\ [][Next]_vars

TypeOK ==
    /\ WellFormed(dest)
    /\ status \in {"idle", "running", "ok", "err"}

(***************************************************************************)
(* Properties.                                                             *)
(***************************************************************************)
\* the destination backend has the semantics of std::fs on the two points
\* the variable backend leaves open; the statements that fail are stated
\* for it, so that what refutes them is a run on the real filesystem
StdBackend == ~backend.lstat /\ ~backend.openDir

\* the destination path the code computes for the last step
CurDest == DestPathFor(destScope, cur.path)

\* an entry and a source entry agree in kind, content, mode, uid and gid
SameAs(d, e) == d.kind = e.kind /\ d.content = e.content /\ Meta(d) = Meta(e)

\* C1: a copy with the default destination scope (copy_between,
\* copy_from_src) of a source directory onto an empty destination that
\* returned Ok has reproduced every regular file and every directory of the
\* enumerated subtree at its destination path, with the kind, the content
\* and the mode, uid and gid of the source entry.
C1_SubtreeReproduced ==
    (/\ status = "ok"
     /\ destScope = Root
     /\ dest0 = EmptyFs
     /\ IsDir(src, srcScope))
    => \A p \in WalkSet(src, srcScope) :
          LET e == EntryAt(src, p, FALSE)
          IN  e.kind \in {"file", "dir"}
              => SameAs(EntryAt(dest, DestPathFor(destScope, p), FALSE), e)

C1_Witness ==
    /\ status = "ok"
    /\ destScope = Root
    /\ dest0 = EmptyFs
    /\ srcScope = Root
    /\ src[<<"/", "a">>].kind = "dir"
    /\ src[<<"/", "a", "a">>].kind = "dir"
    /\ src[<<"/", "a", "b">>].kind = "file"
    /\ src[<<"/", "a", "b">>].content = <<1>>
    /\ src[<<"/", "a", "b">>].uid = 1000
    /\ dest[<<"/", "a", "b">>] = src[<<"/", "a", "b">>]
    /\ dest[<<"/", "a", "a">>] = src[<<"/", "a", "a">>]

\* C2: after a file copy onto a destination path that was a regular file
\* has succeeded, the destination file holds exactly the bytes of the source
\* file and has its mode, uid and gid.
C2_OverwriteExact ==
    (StdBackend /\ cur.op = "file" /\ cur.ok /\ cur.found = "file")
    => SameAs(EntryAt(dest, CurDest, FALSE), EntryAt(src, cur.path, FALSE))

\* C3: after a file copy onto a destination path that was a directory, the
\* directory holds a regular file named after the source's base name with
\* the source's bytes, mode, uid and gid, and the directory is still one.
C3_CopiedIntoDirectory ==
    (StdBackend /\ cur.op = "file" /\ cur.found = "dir" /\ ~faulted)
    => /\ SameAs(EntryAt(dest, Join(CurDest, <<FileName(cur.path)>>), FALSE),
                 EntryAt(src, cur.path, FALSE))
       /\ EntryAt(dest, CurDest, FALSE).kind = "dir"

\* the path the loop processes next, and the destination path of it
NextPath == Head(paths)

NextDest == DestPathFor(destScope, NextPath)

\* the step taken is an iteration of the loop in which no backend call
\* failed with an injected I/O error
CleanStep(kind) == Looping /\ Classify(NextPath) = kind /\ ~faulted'

\* C4: a file copy whose destination path is a symbolic link is skipped
\* without a fatal error and leaves the whole destination as it was.
C4_SymlinkDestinationUntouched ==
    [][(StdBackend /\ CleanStep("file") /\ EntryAt(dest, NextDest, FALSE).kind = "symlink")
         => (dest' = dest /\ status' = "running")]_vars

\* C5: a step for a source path that is a symbolic link never follows the
\* link: when it succeeds the destination path is a link with exactly the
\* source link's target string, and whether it succeeds or not it changes
\* nothing else, so that no file content and no directory is materialized.
C5_SymlinkNotFollowed ==
    [][(Looping /\ Classify(NextPath) = "symlink")
         => LET t == EntryAt(src, NextPath, FALSE).target
            IN  /\ status' = "running"
                     => /\ EntryAt(dest', NextDest, FALSE).kind = "symlink"
                        /\ EntryAt(dest', NextDest, FALSE).target = t
                /\ \A q \in AbsPaths :
                     dest'[q] # dest[q]
                     => /\ status' = "running"
                        /\ dest[q].kind = "none"
                        /\ dest'[q] = NewLink(t)
                        /\ q = Resolve(dest, NextDest, FALSE).path]_vars

C5_Witness ==
    /\ cur.op = "symlink"
    /\ cur.ok
    /\ cur.path = <<"/", "a", "a">>
    /\ src[<<"/", "a", "a">>].target = <<"b">>
    /\ src[<<"/", "a", "b">>].kind = "file"
    /\ dest[<<"/", "a", "a">>] = NewLink(<<"b">>)
    /\ dest[<<"/", "a", "b">>].kind = "none"

\* C6: an operation called with a destination scope D other than "/"
\* creates and changes entries under D only.
C6_OnlyUnderDestScope ==
    (StdBackend /\ destScope # Root)
    => \A q \in AbsPaths : dest[q] # dest0[q] => StartsWith(q, destScope)

\* C7: the same operation run again right after a successful run, on an
\* unchanged source, succeeds too and leaves the destination as the first
\* run left it.
C7_Idempotent ==
    (StdBackend /\ runs = 2 /\ ~faulted)
    => /\ status # "err"
       /\ status = "ok" => dest = dest0

\* C8: a path of a type that is no link, directory or regular file changes
\* nothing on the destination and fails nothing: the loop goes on with the
\* paths after it.
C8_UnknownTypeSkipped ==
    [][CleanStep("unknown")
         => (dest' = dest /\ status' = "running" /\ paths' = Tail(paths))]_vars

C8_Witness ==
    /\ status = "ok"
    /\ ~faulted
    /\ srcScope = Root
    /\ src[<<"/", "a", "a">>].kind = "other"
    /\ src[<<"/", "a", "b">>].kind = "file"
    /\ dest0 = EmptyFs
    /\ dest[<<"/", "a", "a">>].kind = "none"
    /\ dest[<<"/", "a", "b">>] = src[<<"/", "a", "b">>]
    /\ dest[<<"/", "a">>] = src[<<"/", "a">>]

\* the places a step for the next path may write to: what its destination
\* path names after following links and, for a destination that is a
\* directory, the entry named after the source's base name inside it
StepTargets ==
    {Resolve(dest, NextDest, TRUE).path,
     Resolve(dest, Join(NextDest, <<FileName(NextPath)>>), TRUE).path}

\* C9: when a step of the loop fails the operation returns Err at once:
\* the failing path is not processed again, no later path is processed and
\* no step is taken after the error; nothing is rolled back: every entry
\* the destination held before the failing step is still there, and all of
\* them but the step's own destination are as they were.
C9_FailFastNoRollback ==
    [][/\ status # "err"
       /\ (Looping /\ ~cur'.ok)
            => /\ status' = "err"
               /\ paths' = Tail(paths)
               /\ \A q \in AbsPaths :
                    dest[q].kind # "none"
                    => /\ dest'[q].kind = dest[q].kind
                       /\ q \notin StepTargets => dest'[q] = dest[q]]_vars

C9_Witness ==
    /\ status = "err"
    /\ cur.op = "file"
    /\ ~cur.ok
    /\ cur.path = <<"/", "a", "a">>
    /\ paths = << <<"/", "a", "b">> >>
    /\ dest0 = EmptyFs
    /\ src[<<"/", "a", "a">>].uid = 1000
    /\ dest[<<"/", "a">>] = src[<<"/", "a">>]
    /\ dest[<<"/", "a", "a">>].kind = "file"
    /\ dest[<<"/", "a", "a">>].uid = 0
    /\ dest[<<"/", "a", "b">>].kind = "none"

\* C10 as stated: every entry the destination held when the operation
\* started is still there with its kind, and only regular files among them
\* differ from what they were.
C10_OnlyFilesChange ==
    StdBackend
    => \A q \in AbsPaths :
          dest0[q].kind # "none"
          => /\ dest[q].kind = dest0[q].kind
             /\ dest0[q].kind # "file" => dest[q] = dest0[q]

\* C10, amended: every entry the destination held when the operation started
\* is still there with its kind, and a symbolic link among them is as it
\* was.  A step changes an entry that exists only if it is a file copy or a
\* directory copy and the entry is its destination (StepTargets), a
\* directory copy changes a directory only, and only a file copy onto a
\* regular file changes content.
C10_PreexistingKept ==
    /\ [](\A q \in AbsPaths :
            dest0[q].kind # "none"
            => /\ dest[q].kind = dest0[q].kind
               /\ dest0[q].kind = "symlink" => dest[q] = dest0[q])
    /\ [][\A q \in AbsPaths :
            (dest[q].kind # "none" /\ dest'[q] # dest[q])
            => /\ Looping
               /\ Classify(NextPath) \in {"file", "dir"}
               /\ q \in StepTargets
               /\ Classify(NextPath) = "dir" => dest[q].kind = "dir"
               /\ dest'[q].content # dest[q].content
                    => (Classify(NextPath) = "file" /\ dest[q].kind = "file")]_vars

C10_Witness ==
    /\ status = "ok"
    /\ dest0[<<"/", "a">>].kind = "dir"
    /\ Meta(dest[<<"/", "a">>]) # Meta(dest0[<<"/", "a">>])
    /\ dest0[<<"/", "a", "a">>].kind = "file"
    /\ dest[<<"/", "a", "a">>].content # dest0[<<"/", "a", "a">>].content
    /\ dest0[<<"/", "a", "b">>].kind = "symlink"
    /\ dest[<<"/", "a", "b">>] = dest0[<<"/", "a", "b">>]

====
